---- MODULE Spec2Model ----
(***************************************************************************)
(* midserve: the file-serving handler (a copy of net/http.FileServer).     *)
(*                                                                         *)
(* Strings are sequences of tokens.  A token is one byte ("/", ".", "?",   *)
(* "a", "&") or an indivisible run of bytes ("index.html", "git") whose    *)
(* first byte no other token starts with, so every token sequence is one   *)
(* string and the string functions below act on it as the Go functions act *)
(* on the bytes.                                                           *)
(***************************************************************************)
EXTENDS Integers, Sequences, FiniteSets, TLC

VARIABLES fs, req, prior, resp, handles, cond, listed, served, hops, pc, exit

vars == <<fs, req, prior, resp, handles, cond, listed, served, hops, pc, exit>>

(***************************************************************************)
(* Bounds of the model.                                                    *)
(***************************************************************************)
\* longest request path, in tokens
MaxPathLen == 4
\* redirects a client follows before it gives up
MaxHops == 4
\* largest If-Modified-Since time, in whole seconds after the epoch
MaxTime == 1

(***************************************************************************)
(* strings, path and net/url functions the handler calls                   *)
(***************************************************************************)
HasPrefix(s, p) == Len(s) >= Len(p) /\ SubSeq(s, 1, Len(p)) = p

HasSuffix(s, p) == Len(s) >= Len(p) /\ SubSeq(s, Len(s) - Len(p) + 1, Len(s)) = p

TrimSuffix(s, p) == IF HasSuffix(s, p) THEN SubSeq(s, 1, Len(s) - Len(p)) ELSE s

\* strings.Split(s, "/"): the segments between slashes, empty ones kept
RECURSIVE Split(_)
Split(s) ==
    IF s = <<>> THEN << <<>> >>
    ELSE LET r == Split(Tail(s))
         IN  IF Head(s) = "/" THEN << <<>> >> \o r
             ELSE << <<Head(s)>> \o Head(r) >> \o Tail(r)

\* strings.Join(segs, "/")
RECURSIVE Join(_)
Join(segs) ==
    IF segs = <<>> THEN <<>>
    ELSE IF Len(segs) = 1 THEN segs[1]
    ELSE segs[1] \o <<"/">> \o Join(Tail(segs))

Dot == <<".">>
DotDot == <<".", ".">>

\* the element loop of path.Clean: out is the stack of elements kept so far
RECURSIVE CleanSegs(_, _, _)
CleanSegs(segs, rooted, out) ==
    IF segs = <<>> THEN out
    ELSE LET s == Head(segs)
             rest == Tail(segs)
         IN  IF s = <<>> \/ s = Dot THEN CleanSegs(rest, rooted, out)
             ELSE IF s = DotDot
                  THEN IF out # <<>> /\ out[Len(out)] # DotDot
                       THEN CleanSegs(rest, rooted, SubSeq(out, 1, Len(out) - 1))
                       ELSE IF rooted THEN CleanSegs(rest, rooted, out)
                       ELSE CleanSegs(rest, rooted, Append(out, s))
                  ELSE CleanSegs(rest, rooted, Append(out, s))

\* path.Clean
Clean(p) ==
    IF p = <<>> THEN Dot
    ELSE LET rooted == Head(p) = "/"
             out == Join(CleanSegs(Split(p), rooted, <<>>))
         IN  IF rooted THEN <<"/">> \o out
             ELSE IF out = <<>> THEN Dot ELSE out

RECURSIVE StripSlashes(_)
StripSlashes(p) ==
    IF p # <<>> /\ p[Len(p)] = "/" THEN StripSlashes(SubSeq(p, 1, Len(p) - 1)) ELSE p

\* path.Base
Base(p) ==
    IF p = <<>> THEN Dot
    ELSE LET q == StripSlashes(p)
             segs == Split(q)
             last == segs[Len(segs)]
         IN  IF last = <<>> THEN <<"/">> ELSE last

\* the directory part of a path: everything up to and including the last slash
RECURSIVE DirPart(_)
DirPart(p) ==
    IF p = <<>> \/ p[Len(p)] = "/" THEN p ELSE DirPart(SubSeq(p, 1, Len(p) - 1))

(***************************************************************************)
(* What a client does with a relative Location (RFC 3986, section 5.2):    *)
(* localRedirect leaves the reference relative, so the client splits it at *)
(* the first "?" and merges its path with the path of the request.         *)
(***************************************************************************)
RECURSIVE QueryIndex(_, _)
QueryIndex(s, i) ==
    IF i > Len(s) THEN 0 ELSE IF s[i] = "?" THEN i ELSE QueryIndex(s, i + 1)

\* the reference split into its path and its query
ParseReference(ref) ==
    LET i == QueryIndex(ref, 1)
    IN  IF i = 0 THEN [path |-> ref, hasQuery |-> FALSE, query |-> <<>>]
        ELSE [path |-> SubSeq(ref, 1, i - 1), hasQuery |-> TRUE,
              query |-> SubSeq(ref, i + 1, Len(ref))]

\* remove_dot_segments (RFC 3986, 5.2.4) over the segments after the leading slash
RECURSIVE RemoveDots(_, _)
RemoveDots(segs, out) ==
    IF segs = <<>> THEN out
    ELSE LET s == Head(segs)
             rest == Tail(segs)
             last == rest = <<>>
             popped == IF out = <<>> THEN out ELSE SubSeq(out, 1, Len(out) - 1)
         IN  IF s = Dot
             THEN RemoveDots(rest, IF last THEN Append(out, <<>>) ELSE out)
             ELSE IF s = DotDot
             THEN RemoveDots(rest, IF last THEN Append(popped, <<>>) ELSE popped)
             ELSE RemoveDots(rest, Append(out, s))

RemoveDotSegments(p) == <<"/">> \o Join(RemoveDots(Tail(Split(p)), <<>>))

\* the target of reference ref, met in the response to a request for base?baseQuery
ResolveReference(base, baseQuery, ref) ==
    LET r == ParseReference(ref)
    IN  IF r.path = <<>>
        THEN [path |-> base, query |-> IF r.hasQuery THEN r.query ELSE baseQuery]
        ELSE IF Head(r.path) = "/"
        THEN [path |-> RemoveDotSegments(r.path), query |-> r.query]
        ELSE [path |-> RemoveDotSegments(DirPart(base) \o r.path), query |-> r.query]

(***************************************************************************)
(* Time.  A time is a count of half seconds since the Unix epoch, so that  *)
(* a modification time can carry a sub-second part; the zero time.Time     *)
(* (year 1) is a value of its own, before the epoch.                       *)
(***************************************************************************)
TicksPerSecond == 2
unixEpochTime == 0
ZeroTime == -2

Seconds == 0..MaxTime

\* modtime.Truncate(time.Second)
Truncate(t) == t - (t % TicksPerSecond)

\* t.UTC().Format(http.TimeFormat): an HTTP date has whole seconds only
TimeFormat(t) == <<"Date", ToString(Truncate(t) \div TicksPerSecond)>>

\* http.ParseTime: the time an HTTP date names, or an error
ParseTime(text) ==
    IF \E s \in Seconds : text = TimeFormat(s * TicksPerSecond)
    THEN [err |-> "", t |-> (CHOOSE s \in Seconds : text = TimeFormat(s * TicksPerSecond))
                             * TicksPerSecond]
    ELSE [err |-> "parse", t |-> ZeroTime]

isZeroTime(t) == t = ZeroTime \/ t = unixEpochTime

\* checkIfModifiedSince, with the condTrue/condFalse of the source
checkIfModifiedSince_NoTruncate(method, ims, modtime) ==
    IF method # "GET" /\ method # "HEAD" THEN "condNone"
    ELSE IF ims = <<>> \/ isZeroTime(modtime) THEN "condNone"
    ELSE LET p == ParseTime(ims)
         IN  IF p.err # "" THEN "condNone"
             ELSE IF modtime <= p.t THEN "condFalse" ELSE "condTrue"

checkIfModifiedSince(method, ims, modtime) ==
    IF method # "GET" /\ method # "HEAD" THEN "condNone"
    ELSE IF ims = <<>> \/ isZeroTime(modtime) THEN "condNone"
    ELSE LET p == ParseTime(ims)
             mt == Truncate(modtime)
         IN  IF p.err # "" THEN "condNone"
             ELSE IF mt < p.t \/ mt = p.t THEN "condFalse" ELSE "condTrue"

(***************************************************************************)
(* The response writer: the status (0 until it is written), the header map *)
(* (the empty string for a key that is not set) and the bytes written.     *)
(***************************************************************************)
HeaderNames ==
    {"Location", "Content-Type", "X-Content-Type-Options", "Last-Modified", "Etag",
     "Content-Length"}

NoHeader == [h \in HeaderNames |-> <<>>]

NewResponse(header) == [status |-> 0, header |-> header, body |-> <<>>]

StatusOK == 200
StatusMovedPermanently == 301
StatusNotModified == 304
StatusForbidden == 403
StatusNotFound == 404
StatusInternalServerError == 500

\* w.WriteHeader(code): the first status written is the one sent
WriteHeader(w, code) == IF w.status = 0 THEN [w EXCEPT !.status = code] ELSE w

\* a write to w: it sends status 200 first if no status was written
Write(w, data) == [WriteHeader(w, StatusOK) EXCEPT !.body = @ \o data]

SetHeader(w, key, value) == [w EXCEPT !.header[key] = value]

localRedirect_DropQuery(w, q, newPath) ==
    WriteHeader(SetHeader(w, "Location", newPath), StatusMovedPermanently)

localRedirect(w, q, newPath) ==
    LET target == IF q # <<>> THEN newPath \o <<"?">> \o q ELSE newPath
    IN  WriteHeader(SetHeader(w, "Location", target), StatusMovedPermanently)

toHTTPError_PermissionAsNotFound(err) ==
    IF err = "notexist" \/ err = "permission"
    THEN [msg |-> "404 page not found", code |-> StatusNotFound]
    ELSE [msg |-> "500 Internal Server Error", code |-> StatusInternalServerError]

toHTTPError(err) ==
    IF err = "notexist" THEN [msg |-> "404 page not found", code |-> StatusNotFound]
    ELSE IF err = "permission" THEN [msg |-> "403 Forbidden", code |-> StatusForbidden]
    ELSE [msg |-> "500 Internal Server Error", code |-> StatusInternalServerError]

Error_NoSniffMissing(w, msg, code) ==
    Write(WriteHeader(SetHeader(w, "Content-Type", <<"text/plain; charset=utf-8">>), code),
          <<msg, "\n">>)

\* Error: fmt.Fprintln writes the message and a newline
Error(w, msg, code) ==
    LET w1 == SetHeader(w, "Content-Type", <<"text/plain; charset=utf-8">>)
        w2 == SetHeader(w1, "X-Content-Type-Options", <<"nosniff">>)
    IN  Write(WriteHeader(w2, code), <<msg, "\n">>)

writeNotModified_DropLastModified(w) ==
    LET h == [w.header EXCEPT !["Content-Type"] = <<>>, !["Content-Length"] = <<>>,
                              !["Last-Modified"] = <<>>]
    IN  WriteHeader([w EXCEPT !.header = h], StatusNotModified)

writeNotModified(w) ==
    LET h1 == [w.header EXCEPT !["Content-Type"] = <<>>, !["Content-Length"] = <<>>]
        h2 == IF h1["Etag"] # <<>> THEN [h1 EXCEPT !["Last-Modified"] = <<>>] ELSE h1
    IN  WriteHeader([w EXCEPT !.header = h2], StatusNotModified)

setLastModified(w, modtime) ==
    IF ~isZeroTime(modtime) THEN SetHeader(w, "Last-Modified", TimeFormat(modtime)) ELSE w

(***************************************************************************)
(* The file system behind http.FileSystem: a map from the clean absolute   *)
(* paths that exist to their entries.  An entry is a file or a directory,  *)
(* with the error (if any) its Open, Stat and Readdir return.              *)
(***************************************************************************)
Root == <<"/">>

Entry(kind, openErr, statErr, readErr, modtime) ==
    [kind |-> kind, openErr |-> openErr, statErr |-> statErr, readErr |-> readErr,
     modtime |-> modtime]

Parent(p) ==
    LET d == DirPart(SubSeq(p, 1, Len(p) - 1))
    IN  IF Len(d) > 1 THEN SubSeq(d, 1, Len(d) - 1) ELSE Root

Children(p) == {q \in DOMAIN fs : q # Root /\ Parent(q) = p}

\* the exclusion rules main hands to FileServer: ^\.git, ^\.vscode, ^\.idea
Excludes == {<<".", "git">>, <<".", "vscode">>, <<".", "idea">>}

\* whether a rule matches the path segment: each rule is anchored at its start
MatchString(seg) == \E e \in Excludes : HasPrefix(seg, e)

\* a path is hidden from lookups when a rule matches one of its segments
Hidden(name) == \E i \in 1..Len(Split(name)) : MatchString(Split(name)[i])

\* fs.Open(name): the error, "" when the entry is opened
Open(name) ==
    IF Hidden(name) \/ name \notin DOMAIN fs THEN "notexist" ELSE fs[name].openErr

\* f.Stat() of the entry opened at path p
Stat(p) ==
    [err |-> fs[p].statErr, name |-> Base(p), isDir |-> fs[p].kind = "dir",
     modtime |-> fs[p].modtime]

\* an entry is left out of a listing when a rule matches its name
Visible(q) == ~MatchString(Base(q))

\* the os.FileInfo records f.Readdir(-1) returns for directory p; their order is the
\* directory's own, so any order
FileInfos(p) ==
    {[name |-> Base(q), isDir |-> fs[q].kind = "dir"] : q \in {c \in Children(p) : Visible(c)}}

Orders(S) ==
    {o \in [1..Cardinality(S) -> S] : \A i, j \in 1..Cardinality(S) : i # j => o[i] # o[j]}

(***************************************************************************)
(* dirList                                                                 *)
(***************************************************************************)
\* the first byte of a token: tokens compare as their bytes do
Byte(t) ==
    CASE t = "&" -> 38 [] t = "." -> 46 [] t = "/" -> 47 [] t = "?" -> 63
      [] t = "a" -> 97 [] t = "git" -> 103 [] t = "index.html" -> 105

\* s < t on strings
RECURSIVE Less(_, _)
Less(s, t) ==
    IF t = <<>> THEN FALSE
    ELSE IF s = <<>> THEN TRUE
    ELSE IF Head(s) = Head(t) THEN Less(Tail(s), Tail(t))
    ELSE Byte(Head(s)) < Byte(Head(t))

RECURSIVE Insert(_, _)
Insert(d, sorted) ==
    IF sorted = <<>> THEN <<d>>
    ELSE IF Less(d.name, Head(sorted).name) THEN <<d>> \o sorted
    ELSE <<Head(sorted)>> \o Insert(d, Tail(sorted))

SortByName_Unsorted(dirs) == dirs

\* sort.Slice(dirs, func(i, j) { return dirs[i].Name() < dirs[j].Name() })
RECURSIVE SortByName(_)
SortByName(dirs) ==
    IF dirs = <<>> THEN <<>> ELSE Insert(Head(dirs), SortByName(Tail(dirs)))

\* url.URL{Path: name}.String(): "?" is escaped, the other tokens stand for themselves
RECURSIVE EscapePath(_)
EscapePath(s) ==
    IF s = <<>> THEN <<>>
    ELSE <<IF Head(s) = "?" THEN "%3F" ELSE Head(s)>> \o EscapePath(Tail(s))

\* htmlReplacer.Replace(name)
RECURSIVE htmlReplacer(_)
htmlReplacer(s) ==
    IF s = <<>> THEN <<>>
    ELSE <<IF Head(s) = "&" THEN "&amp;" ELSE Head(s)>> \o htmlReplacer(Tail(s))

\* the anchor lines dirList writes for the sorted entries
RECURSIVE Anchors(_)
Anchors(dirs) ==
    IF dirs = <<>> THEN <<>>
    ELSE LET d == Head(dirs)
             name == IF d.isDir THEN d.name \o <<"/">> ELSE d.name
         IN  <<"<a href=\"">> \o EscapePath(name) \o <<"\">">> \o htmlReplacer(name)
                 \o <<"</a>", "\n">> \o Anchors(Tail(dirs))

\* dirList on directory p whose Readdir returned dirs (or failed)
dirList(w, p, dirs) ==
    IF fs[p].readErr
    THEN Error(w, "Error reading directory", StatusInternalServerError)
    ELSE LET w1 == SetHeader(w, "Content-Type", <<"text/html; charset=utf-8">>)
         IN  Write(w1, <<"<pre>", "\n">> \o Anchors(SortByName(dirs)) \o <<"</pre>", "\n">>)

\* http.ServeContent: the external primitive sets Last-Modified, checks the
\* precondition itself, and writes the content of the file
ServeContent(w, r, modtime, file) ==
    LET w1 == setLastModified(w, modtime)
    IN  IF checkIfModifiedSince(r.method, r.ims, modtime) = "condFalse"
        THEN writeNotModified(w1)
        ELSE Write(w1, IF r.method = "HEAD" THEN <<>> ELSE <<"content of">> \o file)

(***************************************************************************)
(* File handles of one request: f (the entry) and ff (the index file).     *)
(* Each counts its opens and closes; deferred is set by `defer x.Close()`. *)
(***************************************************************************)
HandleNames == {"f", "ff"}

NoHandles == [h \in HandleNames |-> [opened |-> 0, deferred |-> FALSE, closed |-> 0]]

\* a successful fs.Open followed by its defer statement
OpenDeferClose(h, x) == [h EXCEPT ![x].opened = @ + 1, ![x].deferred = TRUE]

RunDefers_OnlyEntry(h) ==
    [x \in HandleNames |->
        IF x = "f" /\ h[x].deferred THEN [h[x] EXCEPT !.closed = @ + 1] ELSE h[x]]

\* the deferred calls run when serveFile returns
RunDefers(h) ==
    [x \in HandleNames |-> IF h[x].deferred THEN [h[x] EXCEPT !.closed = @ + 1] ELSE h[x]]

(***************************************************************************)
(* ServeHTTP and serveFile.  ServeHTTP is the only caller and passes       *)
(* redirect = true, so the second trailing-slash test of serveFile (a      *)
(* directory whose URL lacks the slash) is never reached with a directory  *)
(* that the first test let through.                                        *)
(***************************************************************************)
indexPage == <<"/", "index.html">>

\* r.URL.Path as ServeHTTP leaves it
Url(r) == IF HasPrefix(r.path, <<"/">>) THEN r.path ELSE <<"/">> \o r.path

\* the name ServeHTTP passes to serveFile
Name(r) == Clean(Url(r))

IsIndexRequest(r) == HasSuffix(Url(r), indexPage)

Opened(r) == ~IsIndexRequest(r) /\ Open(Name(r)) = ""

Statted(r) == Opened(r) /\ Stat(Name(r)).err = ""

NeedsRedirect_SlashTestInverted(r) ==
    LET url == Url(r)
    IN  IF Stat(Name(r)).isDir THEN url[Len(url)] = "/" ELSE url[Len(url)] = "/"

\* the canonical-path test: a directory needs the trailing slash, a file must not have it
NeedsRedirect(r) ==
    LET url == Url(r)
    IN  IF Stat(Name(r)).isDir THEN url[Len(url)] # "/" ELSE url[Len(url)] = "/"

CanonicalLocation(r) ==
    IF Stat(Name(r)).isDir THEN Base(Url(r)) \o <<"/">>
    ELSE <<".", ".", "/">> \o Base(Url(r))

\* the path of index.html inside the directory
Index(r) == TrimSuffix(Name(r), <<"/">>) \o indexPage

\* ff is opened for a directory; it replaces f and d when its Stat succeeds too
IndexOpened(r) == Stat(Name(r)).isDir /\ Open(Index(r)) = ""

IndexTaken(r) == IndexOpened(r) /\ Stat(Index(r)).err = ""

\* the path of the entry that f and d denote after the index.html step
Target(r) == IF IndexTaken(r) THEN Index(r) ELSE Name(r)

\* serveFile got past the redirects
Resolved(r) == Statted(r) /\ ~NeedsRedirect(r)

HandlesAtEnd(r) ==
    LET h1 == OpenDeferClose(NoHandles, "f")
    IN  IF IndexOpened(r) THEN OpenDeferClose(h1, "ff") ELSE h1

NoCond == [result |-> "uncalled", modtime |-> 0]
NotListed == [called |-> FALSE, dir |-> <<>>]
NotServed == [called |-> FALSE, name |-> <<>>, modtime |-> 0, file |-> <<>>]

\* serveFile returns: the response is complete and the deferred closes have run
Return(w, h, c, l, s, e) ==
    /\ resp' = w
    /\ handles' = RunDefers(h)
    /\ cond' = c
    /\ listed' = l
    /\ served' = s
    /\ exit' = e
    /\ pc' = "done"
    /\ UNCHANGED <<fs, req, prior, hops>>

\* a URL ending in /index.html is redirected to ./ before anything is opened
ServeIndexRedirect ==
    /\ pc = "serving"
    /\ IsIndexRequest(req)
    /\ Return(localRedirect(resp, req.query, <<".", "/">>), NoHandles, NoCond, NotListed,
              NotServed, "index redirect")

ServeOpenError ==
    /\ pc = "serving"
    /\ ~IsIndexRequest(req)
    /\ Open(Name(req)) # ""
    /\ LET e == toHTTPError(Open(Name(req)))
       IN  Return(Error(resp, e.msg, e.code), NoHandles, NoCond, NotListed, NotServed,
                  "open error")

ServeStatError ==
    /\ pc = "serving"
    /\ Opened(req)
    /\ Stat(Name(req)).err # ""
    /\ LET e == toHTTPError(Stat(Name(req)).err)
       IN  Return(Error(resp, e.msg, e.code), OpenDeferClose(NoHandles, "f"), NoCond,
                  NotListed, NotServed, "stat error")

ServeCanonicalRedirect ==
    /\ pc = "serving"
    /\ Statted(req)
    /\ NeedsRedirect(req)
    /\ Return(localRedirect(resp, req.query, CanonicalLocation(req)),
              OpenDeferClose(NoHandles, "f"), NoCond, NotListed, NotServed,
              "canonical redirect")

ServeNotModified ==
    /\ pc = "serving"
    /\ Resolved(req)
    /\ LET d == Stat(Target(req))
           c == checkIfModifiedSince(req.method, req.ims, d.modtime)
       IN  /\ d.isDir
           /\ c = "condFalse"
           /\ Return(writeNotModified(resp), HandlesAtEnd(req),
                     [result |-> c, modtime |-> d.modtime], NotListed, NotServed,
                     "not modified")

ServeDirList ==
    /\ pc = "serving"
    /\ Resolved(req)
    /\ LET d == Stat(Target(req))
           c == checkIfModifiedSince(req.method, req.ims, d.modtime)
       IN  /\ d.isDir
           /\ c # "condFalse"
           /\ ~fs[Target(req)].readErr
           /\ \E dirs \in Orders(FileInfos(Target(req))) :
                Return(dirList(setLastModified(resp, d.modtime), Target(req), dirs),
                       HandlesAtEnd(req), [result |-> c, modtime |-> d.modtime],
                       [called |-> TRUE, dir |-> Target(req)], NotServed, "listing")

ServeDirListError ==
    /\ pc = "serving"
    /\ Resolved(req)
    /\ LET d == Stat(Target(req))
           c == checkIfModifiedSince(req.method, req.ims, d.modtime)
       IN  /\ d.isDir
           /\ c # "condFalse"
           /\ fs[Target(req)].readErr
           /\ Return(dirList(setLastModified(resp, d.modtime), Target(req), <<>>),
                     HandlesAtEnd(req), [result |-> c, modtime |-> d.modtime],
                     [called |-> TRUE, dir |-> Target(req)], NotServed, "listing error")

ServeFileContent ==
    /\ pc = "serving"
    /\ Resolved(req)
    /\ LET d == Stat(Target(req))
       IN  /\ ~d.isDir
           /\ Return(ServeContent(resp, req, d.modtime, Target(req)), HandlesAtEnd(req),
                     NoCond, NotListed,
                     [called |-> TRUE, name |-> d.name, modtime |-> d.modtime,
                      file |-> Target(req)], "content")

\* the client follows the Location of a redirect with a new request
Follow ==
    /\ pc = "done"
    /\ resp.status = StatusMovedPermanently
    /\ hops < MaxHops
    /\ LET t == ResolveReference(Url(req), req.query, resp.header["Location"])
       IN  req' = [req EXCEPT !.path = t.path, !.query = t.query]
    /\ prior' = NoHeader
    /\ resp' = NewResponse(prior')
    /\ handles' = NoHandles
    /\ cond' = NoCond
    /\ listed' = NotListed
    /\ served' = NotServed
    /\ exit' = ""
    /\ hops' = hops + 1
    /\ pc' = "serving"
    /\ UNCHANGED fs

(***************************************************************************)
(* The requests and file systems the handler is run on.                    *)
(***************************************************************************)
\* r.URL.Path is the decoded path, so a "?" in it is part of a name (sent as %3F); it
\* need not be clean or start with a slash, ServeHTTP sees to both itself
PathTokens == {"/", ".", "a", "?", "index.html"}

\* every string of at most n path tokens
Paths(n) == UNION {[1..k -> PathTokens] : k \in 0..n}

Methods == {"GET", "HEAD", "POST"}

\* If-Modified-Since: not set, not a date, or a date
IfModifiedSinceValues ==
    {<<>>, <<"yesterday">>} \cup {TimeFormat(s * TicksPerSecond) : s \in Seconds}

\* modification times: the zero time, the epoch, and times with and without half seconds
ModTimes == {ZeroTime} \cup (0..(TicksPerSecond * MaxTime + 2))

\* header maps a wrapping handler may have filled before ServeHTTP runs
PriorHeaders ==
    {NoHeader,
     [NoHeader EXCEPT !["Etag"] = <<"v1">>],
     [NoHeader EXCEPT !["Last-Modified"] = TimeFormat(0), !["Content-Type"] = <<"text/css">>,
                      !["Content-Length"] = <<"7">>],
     [NoHeader EXCEPT !["Etag"] = <<"v1">>, !["Last-Modified"] = TimeFormat(0),
                      !["Content-Type"] = <<"text/css">>]}

EntryOf(kind) ==
    CASE kind = "file" -> Entry("file", "", "", FALSE, 3)
      [] kind = "dir" -> Entry("dir", "", "", FALSE, 5)
      [] kind = "perm" -> Entry("file", "permission", "", FALSE, 3)
      [] kind = "ioerr" -> Entry("file", "other", "", FALSE, 3)
      [] kind = "staterr" -> Entry("file", "", "other", FALSE, 3)
      [] kind = "readerr" -> Entry("dir", "", "", TRUE, 5)

\* the assignments of kinds to candidate paths: a path under a directory takes one of
\* the kinds allowed for it, a path under anything else is absent
Trees(allowed) ==
    {k \in [DOMAIN allowed -> {"absent"} \cup UNION {allowed[p] : p \in DOMAIN allowed}] :
        \A p \in DOMAIN allowed :
            IF Parent(p) # Root /\ k[Parent(p)] \notin {"dir", "readerr"}
            THEN k[p] = "absent"
            ELSE k[p] \in allowed[p]}

FileSystem(k, root) ==
    [p \in {Root} \cup {q \in DOMAIN k : k[q] # "absent"} |->
        IF p = Root THEN root ELSE EntryOf(k[p])]

\* trees for the redirect rules: nested directories, index.html as a file and as a
\* directory, a directory whose name is "?", an unreadable file
PathTrees ==
    Trees(<<"/", "a">> :> {"absent", "file", "dir", "perm"}
          @@ <<"/", "a", "/", "a">> :> {"absent", "dir"}
          @@ <<"/", "a", "/", "index.html">> :> {"absent", "file"}
          @@ <<"/", "index.html">> :> {"file", "dir"}
          @@ <<"/", "index.html", "/", "index.html">> :> {"file"}
          @@ <<"/", "?">> :> {"absent", "dir"})

\* trees for the listing: excluded and visible children, index.html in every condition
ListingTrees ==
    Trees(<<"/", ".", "git">> :> {"absent", "dir"}
          @@ <<"/", "a">> :> {"absent", "file", "staterr", "ioerr"}
          @@ <<"/", "&">> :> {"absent", "dir"}
          @@ <<"/", "index.html">> :> {"absent", "file", "dir", "perm", "staterr"}
          @@ <<"/", "index.html", "/", "a">> :> {"absent", "file"})

ListingPaths ==
    {Root, <<"/", ".", "git">>, <<"/", ".", "git", "/">>, <<"/", "a">>,
     <<"/", "index.html", "/">>}

Request(path, query, method, ims) ==
    [path |-> path, query |-> query, method |-> method, ims |-> ims]

InitRequest(r, header) ==
    /\ req = r
    /\ prior = header
    /\ resp = NewResponse(header)
    /\ handles = NoHandles
    /\ cond = NoCond
    /\ listed = NotListed
    /\ served = NotServed
    /\ hops = 0
    /\ pc = "serving"
    /\ exit = ""

InitPaths ==
    /\ fs \in {FileSystem(k, EntryOf("dir")) : k \in PathTrees}
    /\ \E p \in Paths(MaxPathLen), q \in {<<>>, <<"x">>} :
         InitRequest(Request(p, q, "GET", <<>>), NoHeader)

InitListing ==
    /\ fs \in {FileSystem(k, EntryOf(root)) : k \in ListingTrees, root \in {"dir", "readerr"}}
    /\ \E p \in ListingPaths :
         InitRequest(Request(p, <<>>, "GET", <<>>), NoHeader)

InitConditional ==
    /\ fs \in {FileSystem(<<"/", "a">> :> "file", Entry("dir", "", "", FALSE, t)) :
                 t \in ModTimes}
    /\ \E m \in Methods, ims \in IfModifiedSinceValues, h \in PriorHeaders :
         InitRequest(Request(Root, <<>>, m, ims), h)

Init == InitPaths \/ InitListing \/ InitConditional

Next ==
    \/ ServeIndexRedirect
    \/ ServeOpenError
    \/ ServeStatError
    \/ ServeCanonicalRedirect
    \/ ServeNotModified
    \/ ServeDirList
    \/ ServeDirListError
    \/ ServeFileContent
    \/ Follow

Spec == Init /\ [][Next]_vars

(***************************************************************************)
(* Properties                                                              *)
(***************************************************************************)
Done == pc = "done"

WithQuery(path, q) == IF q # <<>> THEN path \o <<"?">> \o q ELSE path

LastOf(s) == s[Len(s)]

\* C1: when the entry opened for the cleaned path is a directory and the request path
\* has no trailing slash, the response is a 301 whose Location is the last segment of
\* the path plus "/" (plus "?" and the query), and that Location, resolved against the
\* request path, is the request path plus "/" (its dot segments removed, as resolving
\* a reference removes them).
C1_DirectoryRedirectsToSlash ==
    (Done /\ handles["f"].opened = 1 /\ Stat(Name(req)).err = "" /\ Stat(Name(req)).isDir
          /\ LastOf(Url(req)) # "/")
    => /\ resp.status = StatusMovedPermanently
       /\ resp.header["Location"] = WithQuery(Base(Url(req)) \o <<"/">>, req.query)
       /\ ResolveReference(Url(req), req.query, resp.header["Location"]).path
            = RemoveDotSegments(Url(req) \o <<"/">>)

NotFoundResponse ==
    /\ resp.status = StatusNotFound
    /\ resp.body = <<"404 page not found", "\n">>

ForbiddenResponse ==
    /\ resp.status = StatusForbidden
    /\ resp.body = <<"403 Forbidden", "\n">>

\* C2, as claimed: whenever the cleaned path fails to open with a not-exist (permission)
\* error, the response is the 404 (403) error response and nothing else.
C2_OpenErrorBeforeAnyRedirect ==
    Done =>
        /\ Open(Name(req)) = "notexist" => NotFoundResponse
        /\ Open(Name(req)) = "permission" => ForbiddenResponse

\* C2, amended: for a request path that does not end in /index.html, a cleaned path that
\* fails to open with a not-exist (permission) error yields exactly the 404 (403) error
\* response; no handle is opened, nothing is listed or delivered.
C2_OpenErrorUnlessIndexRequest ==
    (Done /\ ~HasSuffix(Url(req), indexPage)) =>
        /\ Open(Name(req)) = "notexist" => NotFoundResponse
        /\ Open(Name(req)) = "permission" => ForbiddenResponse
        /\ Open(Name(req)) # "" =>
              /\ resp.header["Location"] = <<>>
              /\ ~listed.called /\ ~served.called
              /\ \A x \in HandleNames : handles[x].opened = 0

C2_Witness ==
    /\ Done
    /\ ~HasSuffix(Url(req), indexPage)
    /\ Open(Name(req)) = "permission"
    /\ ForbiddenResponse

\* a request in canonical form: no /index.html suffix, a directory with the trailing
\* slash or a file without it
Canonical(r) ==
    /\ ~HasSuffix(Url(r), indexPage)
    /\ Statted(r)
    /\ Stat(Name(r)).isDir <=> LastOf(Url(r)) = "/"

\* C3, as claimed: a canonical request is never redirected, and following the Locations
\* returned, the response after at most one redirect hop is not a redirect.
C3_AtMostOneRedirectHop ==
    Done =>
        /\ Canonical(req) => resp.status # StatusMovedPermanently
        /\ hops >= 1 => resp.status # StatusMovedPermanently

\* C3, amended: a canonical request is never redirected, whether it is the client's
\* first request or one it made following a Location; no number of hops is promised.
C3_CanonicalNeverRedirected ==
    (Done /\ Canonical(req)) =>
        /\ resp.status # StatusMovedPermanently
        /\ resp.header["Location"] = <<>>

\* a directory reached by one redirect hop and then served
C3_Witness ==
    /\ Done
    /\ hops = 1
    /\ Canonical(req)
    /\ Stat(Name(req)).isDir
    /\ resp.status = StatusOK

\* C4: a request whose URL path ends in /index.html gets a 301 with Location "./" (plus
\* "?" and the query) and nothing else; the target is the path without "index.html".
C4_IndexSuffixRedirect ==
    (Done /\ HasSuffix(req.path, indexPage)) =>
        /\ resp.status = StatusMovedPermanently
        /\ resp.header["Location"] = WithQuery(<<".", "/">>, req.query)
        /\ resp.body = <<>>
        /\ ~listed.called /\ ~served.called
        /\ \A x \in HandleNames : handles[x].opened = 0
        /\ ResolveReference(Url(req), req.query, resp.header["Location"])
             = [path |-> RemoveDotSegments(TrimSuffix(Url(req), <<"index.html">>)),
                query |-> req.query]

C4_Witness ==
    /\ Done
    /\ HasSuffix(req.path, indexPage)
    /\ Len(req.path) > Len(indexPage)
    /\ req.query # <<>>
    /\ resp.status = StatusMovedPermanently

\* the children of directory p that no exclusion rule matches
VisibleChildren(p) ==
    {[name |-> Base(q), isDir |-> fs[q].kind = "dir"] :
        q \in {c \in DOMAIN fs : c # Root /\ Parent(c) = p /\ ~MatchString(Base(c))}}

\* the one arrangement of S in ascending byte order of the names
Ascending(S) ==
    CHOOSE o \in Orders(S) : \A i, j \in 1..Cardinality(S) : i < j => Less(o[i].name, o[j].name)

C6_HandlesClosedOnce ==
    Done => \A x \in HandleNames : handles[x].opened <= 1 /\ handles[x].closed = handles[x].opened

\* the index file was opened but its Stat failed, and the directory was listed
C6_Witness ==
    /\ Done
    /\ handles["f"].opened = 1 /\ handles["f"].closed = 1
    /\ handles["ff"].opened = 1 /\ handles["ff"].closed = 1
    /\ ~IndexTaken(req)
    /\ listed.called

\* the header time of a request, when If-Modified-Since holds a date
HeaderTime(r) == CHOOSE s \in Seconds : r.ims = TimeFormat(s * TicksPerSecond)

Parsable(r) == \E s \in Seconds : r.ims = TimeFormat(s * TicksPerSecond)

\* C7: checkIfModifiedSince gives no-precondition for a method other than GET and HEAD,
\* for an unset or unparsable header and for a zero or epoch modification time; otherwise
\* satisfied (condFalse, which triggers the not-modified response) exactly when the
\* modification time cut to whole seconds is at or before the header time.
C7_Precondition ==
    cond.result # "uncalled" =>
        cond.result =
            IF \/ req.method \notin {"GET", "HEAD"}
               \/ req.ims = <<>>
               \/ ~Parsable(req)
               \/ cond.modtime \in {ZeroTime, unixEpochTime}
            THEN "condNone"
            ELSE IF cond.modtime \div TicksPerSecond <= HeaderTime(req)
                 THEN "condFalse"
                 ELSE "condTrue"

\* a modification time half a second after the header time counts as unchanged
C7_Witness ==
    /\ cond.result = "condFalse"
    /\ Parsable(req)
    /\ cond.modtime > HeaderTime(req) * TicksPerSecond

Phrase(code) ==
    CASE code = StatusNotFound -> "404 page not found"
      [] code = StatusForbidden -> "403 Forbidden"
      [] code = StatusInternalServerError -> "500 Internal Server Error"

ErrorExits == {"open error", "stat error", "listing error"}

ErrorHeaders ==
    /\ resp.status \in {StatusNotFound, StatusForbidden, StatusInternalServerError}
    /\ resp.header["Content-Type"] = <<"text/plain; charset=utf-8">>
    /\ resp.header["X-Content-Type-Options"] = <<"nosniff">>

\* C8, as claimed: every error response has status 404, 403 or 500, the two headers, and
\* the phrase of its status and a newline as its body.
C8_ErrorBodyIsStatusPhrase ==
    (Done /\ exit \in ErrorExits) =>
        /\ ErrorHeaders
        /\ resp.body = <<Phrase(resp.status), "\n">>

\* C8, amended: as claimed for an open or a stat failure; for a directory read failure
\* the status is 500 and the body is "Error reading directory" and a newline.
C8_ErrorResponses ==
    (Done /\ exit \in ErrorExits) =>
        /\ ErrorHeaders
        /\ exit # "listing error" => resp.body = <<Phrase(resp.status), "\n">>
        /\ exit = "listing error" =>
              /\ resp.status = StatusInternalServerError
              /\ resp.body = <<"Error reading directory", "\n">>

C8_Witness ==
    /\ Done
    /\ exit = "listing error"
    /\ resp.status = StatusInternalServerError

\* an index file exists: index.html inside the requested directory opens, stats, and is
\* a regular file
IndexFileExists(r) == IndexTaken(r) /\ ~Stat(Index(r)).isDir

\* C9: for a request that resolves to a directory, an existing index file is delivered
\* by Content Delivery under its own name and modification time and nothing is listed;
\* a listing is made only without an index file, and lists the requested directory.
C9_IndexFileOrOwnListing ==
    (Done /\ Resolved(req) /\ Stat(Name(req)).isDir) =>
        /\ IndexFileExists(req) =>
              /\ served.called
              /\ served.name = <<"index.html">>
              /\ served.modtime = fs[Index(req)].modtime
              /\ served.file = Index(req)
              /\ ~listed.called
        /\ listed.called => ~IndexFileExists(req) /\ listed.dir = Name(req)

ListingWritten ==
    /\ resp.status = StatusOK
    /\ resp.header["Content-Type"] = <<"text/html; charset=utf-8">>
    /\ listed.called
    /\ HasPrefix(resp.body, <<"<pre>", "\n">>) /\ HasSuffix(resp.body, <<"</pre>", "\n">>)

ReadErrorWritten ==
    /\ fs[listed.dir].readErr
    /\ resp.status = StatusInternalServerError
    /\ resp.body = <<"Error reading directory", "\n">>

\* what C10 says of a request that reaches the listing path, but for the body written
\* when the check is not satisfied
ConditionalListing(written) ==
    (Done /\ Resolved(req) /\ Stat(Target(req)).isDir) =>
        LET m == Stat(Target(req)).modtime
        IN  /\ cond.result # "uncalled"
            /\ cond.modtime = m
            /\ IF cond.result = "condFalse"
               THEN /\ resp.status = StatusNotModified
                    /\ resp.body = <<>>
                    /\ ~listed.called
                    /\ resp.header["Content-Type"] = <<>>
                    /\ resp.header["Content-Length"] = <<>>
                    /\ resp.header["Last-Modified"]
                         = IF prior["Etag"] # <<>> THEN <<>> ELSE prior["Last-Modified"]
               ELSE /\ resp.header["Last-Modified"]
                         = IF isZeroTime(m) THEN prior["Last-Modified"] ELSE TimeFormat(m)
                    /\ listed.called
                    /\ written

\* C10, as claimed: the check against the directory's modification time comes first; if
\* satisfied the response is a 304 with no body and no directory read, without
\* Content-Type and Content-Length, and without Last-Modified only if Etag is set;
\* otherwise Last-Modified is set (for a non-zero time) and the listing is written.
C10_CheckThenListing == ConditionalListing(ListingWritten)

\* C10, amended: otherwise Last-Modified is set and the directory is read, and the
\* listing is written unless the read fails, in which case the 500 response is written.
C10_CheckThenListingOrReadError ==
    ConditionalListing(IF fs[listed.dir].readErr THEN ReadErrorWritten ELSE ListingWritten)

\* a 304 that keeps the Last-Modified it was handed, no Etag being set
C10_Witness ==
    /\ Done
    /\ resp.status = StatusNotModified
    /\ prior["Content-Type"] # <<>> /\ prior["Last-Modified"] # <<>> /\ prior["Etag"] = <<>>
    /\ resp.header["Last-Modified"] = prior["Last-Modified"]

====
